---- MODULE Spec2Model ----
(***************************************************************************)
(* Proof of work over Blake3 (src/src/lib.rs): search, verify and          *)
(* leading_zeros.                                                          *)
(*                                                                         *)
(* The caller is one thread that calls search or verify, one call at a     *)
(* time.  search is modelled loop iteration by loop iteration; verify and  *)
(* leading_zeros are pure and are operators, computed as the code computes *)
(* them.  Blake3 is an external primitive: it is an arbitrary function     *)
(* hash_fn from the hashed bytes to 32-byte digests, chosen in Init and    *)
(* never changed.  The random source either fails or yields any nonce.     *)
(*                                                                         *)
(* u32 arithmetic keeps a width: the width is scaled down (CountBits for   *)
(* the accumulator of leading_zeros and for cost, CounterBits for the      *)
(* attempt counter and for meter) so that the values next to the overflow  *)
(* are reached.  An overflowing `+=` panics in a build with overflow       *)
(* checks (debug) and wraps in a build without (release): overflow_checks  *)
(* is the build, chosen in Init.                                           *)
(***************************************************************************)
EXTENDS Integers, Sequences, FiniteSets, TLC

VARIABLES
    overflow_checks,  \* the build: TRUE panics on u32 overflow, FALSE wraps
    hash_fn,          \* Blake3, as a function of the hashed bytes
    op,               \* the current (or last) call: "none", "search", "verify"
    bytes,            \* argument bytes of the call
    cost,             \* argument cost of the call
    meter,            \* argument meter of search
    vnonce,           \* argument nonce of verify
    nonce,            \* search's local nonce
    counter,          \* search's local counter
    pc,               \* "idle", "loop" (inside search), "done", "panicked"
    result,           \* what the call returned
    draws,            \* history: nonces the random source filled in this search
    hashes,           \* history: digests computed in this search
    wrapped,          \* history: counter += 1 wrapped around in this search
    rand_failed,      \* history: the random source failed in this search
    lz_in,            \* leading_zeros specification: the input
    lz_out            \* leading_zeros specification: the outcome

vars == <<overflow_checks, hash_fn, op, bytes, cost, meter, vnonce, nonce,
          counter, pc, result, draws, hashes, wrapped, rand_failed, lz_in,
          lz_out>>

----------------------------------------------------------------------------
(* Constants and bounds *)

NONCE_SIZE == 10

\* length in bytes of a Blake3 digest (hash.as_bytes() is a [u8; 32])
OUT_LEN == 32

\* width of the u32 `count` of leading_zeros and of `cost`, scaled down
CountBits == 9

\* width of the u32 `counter` of search and of `meter`, scaled down
CounterBits == 3

CountMod == 2 ^ CountBits

CounterMod == 2 ^ CounterBits

DigestBits == 8 * OUT_LEN

\* the number of zero bytes whose 8 bits each no longer fit the accumulator
ZeroRunMax == 2 ^ (CountBits - 3)

\* history counters stop counting here (a wrapped loop never ends)
DrawCap == 2 * CounterMod + 1

Fill(n, b) == [i \in 1..n |-> b]

Payloads == { <<>>, <<49, 50, 52>> }

Nonces == { Fill(NONCE_SIZE, 0), Fill(NONCE_SIZE, 171) }

Digests == { Fill(OUT_LEN, 255),
             <<0, 79>> \o Fill(OUT_LEN - 2, 255),
             Fill(OUT_LEN, 0) }

Costs == { 0, 9, 10, DigestBits, DigestBits + 1 }

Meters == { 0, 1, CounterMod - 2, CounterMod - 1 }

HashInputs == { n \o p : n \in Nonces, p \in Payloads }

NonZeroBytes == { 1, 2, 6, 15, 31, 47, 79, 255 }

Tails == { <<>>, <<0>>, <<255>> }

ByteSeqs == { Fill(k, 0) \o s : k \in 0..ZeroRunMax,
              s \in { <<>> } \cup { <<b>> \o t : b \in NonZeroBytes, t \in Tails } }

----------------------------------------------------------------------------
(* leading_zeros *)

\* u8::leading_zeros: the number of zero bits above the highest set bit
RECURSIVE u8_leading_zeros_from(_, _)
u8_leading_zeros_from(b, bit) ==
    IF bit = 0 THEN 8
    ELSE IF b >= 2 ^ (bit - 1) THEN 8 - bit
    ELSE u8_leading_zeros_from(b, bit - 1)

u8_leading_zeros(b) == u8_leading_zeros_from(b, 8)

\* count += lz on a u32: the sum, and whether it overflowed
count_add(count, lz) ==
    [sum |-> (count + lz) % CountMod, overflow |-> count + lz >= CountMod]

\* the loop of leading_zeros from the state (count, ptr)
RECURSIVE leading_zeros_loop(_, _)
leading_zeros_loop(count, ptr) ==
    IF Len(ptr) = 0
    THEN [count |-> count, panicked |-> FALSE]
    ELSE LET lz  == u8_leading_zeros(ptr[1])
             add == count_add(count, lz)
         IN  IF add.overflow /\ overflow_checks
             THEN [count |-> count, panicked |-> TRUE]
             ELSE IF lz < 8
                  THEN [count |-> add.sum, panicked |-> FALSE]
                  ELSE leading_zeros_loop(add.sum, Tail(ptr))

leading_zeros(b) == leading_zeros_loop(0, b)

----------------------------------------------------------------------------
(* hashing, verify *)

\* hasher.update(&nonce); hasher.update(bytes); hasher.finalize()
Hash(n, b) == hash_fn[n \o b]

\* verify with the comparison an exact match instead of a threshold
verify_exact(b, n, c) ==
    LET lz == leading_zeros(Hash(n, b))
    IN  ~lz.panicked /\ lz.count = c

\* leading_zeros(hash.as_bytes()) >= cost, of the digest of nonce || bytes
verify(b, n, c) ==
    LET lz == leading_zeros(Hash(n, b))
    IN  ~lz.panicked /\ lz.count >= c

----------------------------------------------------------------------------
(* results *)

NoResult == [kind |-> "none", nonce |-> <<>>, val |-> FALSE]

Ok(n) == [kind |-> "Ok", nonce |-> n, val |-> FALSE]

ErrRand == [kind |-> "Rand", nonce |-> <<>>, val |-> FALSE]

ErrMeterOverdrawn == [kind |-> "MeterOverdrawn", nonce |-> <<>>, val |-> FALSE]

Bool(v) == [kind |-> "Bool", nonce |-> <<>>, val |-> v]

Inc(n) == IF n < DrawCap THEN n + 1 ELSE n

----------------------------------------------------------------------------
(* search *)

\* the check of search one bit too lenient
Satisfies_loose(hash, c) ==
    LET lz == leading_zeros(hash)
    IN  ~lz.panicked /\ lz.count + 1 >= c

\* the check of search strict: more than cost leading zeros
Satisfies_strict(hash, c) ==
    LET lz == leading_zeros(hash)
    IN  ~lz.panicked /\ lz.count > c

\* leading_zeros(hash.as_bytes()) >= cost
Satisfies(hash, c) ==
    LET lz == leading_zeros(hash)
    IN  ~lz.panicked /\ lz.count >= c

\* counter > meter
Overdrawn(cnt, m) == cnt > m

\* no call is running and no frame is live
Idle ==
    /\ op = "none"
    /\ bytes = <<>>
    /\ cost = 0
    /\ meter = 0
    /\ vnonce = Fill(NONCE_SIZE, 0)
    /\ nonce = Fill(NONCE_SIZE, 0)
    /\ counter = 0
    /\ pc = "idle"
    /\ result = NoResult
    /\ draws = 0
    /\ hashes = 0
    /\ wrapped = FALSE
    /\ rand_failed = FALSE

Init ==
    /\ overflow_checks \in BOOLEAN
    /\ hash_fn \in [HashInputs -> Digests]
    /\ Idle
    /\ lz_in = <<>>
    /\ lz_out = [state |-> "none", count |-> 0]

\* the caller enters search(b, c, m): rng, nonce = [0; NONCE_SIZE], counter = 0
SearchCall ==
    /\ pc = "idle"
    /\ \E b \in Payloads, c \in Costs, m \in Meters :
          /\ bytes' = b
          /\ cost' = c
          /\ meter' = m
    /\ op' = "search"
    /\ nonce' = Fill(NONCE_SIZE, 0)
    /\ counter' = 0
    /\ pc' = "loop"
    /\ result' = NoResult
    /\ draws' = 0
    /\ hashes' = 0
    /\ wrapped' = FALSE
    /\ rand_failed' = FALSE
    /\ UNCHANGED <<overflow_checks, hash_fn, vnonce, lz_in, lz_out>>

\* the failure of the random source swallowed: the loop goes on
RandFail_retry ==
    /\ pc = "loop"
    /\ pc' = "loop"
    /\ rand_failed' = TRUE
    /\ UNCHANGED <<overflow_checks, hash_fn, op, bytes, cost, meter, vnonce,
                   nonce, counter, result, draws, hashes, wrapped, lz_in,
                   lz_out>>

\* nonce.try_fill(&mut rng)? fails: the error is returned through From
RandFail ==
    /\ pc = "loop"
    /\ pc' = "done"
    /\ result' = ErrRand
    /\ rand_failed' = TRUE
    /\ UNCHANGED <<overflow_checks, hash_fn, op, bytes, cost, meter, vnonce,
                   nonce, counter, draws, hashes, wrapped, lz_in, lz_out>>

\* one iteration whose digest has at least cost leading zeros: break, Ok(nonce)
AttemptSucceeds ==
    /\ pc = "loop"
    /\ \E n \in Nonces :
          /\ Satisfies(Hash(n, bytes), cost)
          /\ nonce' = n
          /\ result' = Ok(n)
    /\ pc' = "done"
    /\ draws' = Inc(draws)
    /\ hashes' = Inc(hashes)
    /\ UNCHANGED <<overflow_checks, hash_fn, op, bytes, cost, meter, vnonce,
                   counter, wrapped, rand_failed, lz_in, lz_out>>

\* one iteration whose digest falls short: counter += 1, then counter > meter
AttemptFails ==
    /\ pc = "loop"
    /\ \E n \in Nonces :
          /\ ~Satisfies(Hash(n, bytes), cost)
          /\ nonce' = n
    /\ draws' = Inc(draws)
    /\ hashes' = Inc(hashes)
    /\ LET overflow == counter + 1 >= CounterMod
           next     == (counter + 1) % CounterMod
       IN  IF leading_zeros(Hash(nonce', bytes)).panicked
              \/ (overflow /\ overflow_checks)
           THEN /\ pc' = "panicked"
                /\ UNCHANGED <<counter, wrapped, result>>
           ELSE /\ counter' = next
                /\ wrapped' = (wrapped \/ overflow)
                /\ IF Overdrawn(next, meter)
                   THEN pc' = "done" /\ result' = ErrMeterOverdrawn
                   ELSE pc' = "loop" /\ UNCHANGED result
    /\ UNCHANGED <<overflow_checks, hash_fn, op, bytes, cost, meter, vnonce,
                   rand_failed, lz_in, lz_out>>

\* the caller calls verify(b, n, c), which returns at once
VerifyCall ==
    /\ pc = "idle"
    /\ \E b \in Payloads, n \in Nonces, c \in Costs :
          /\ bytes' = b
          /\ vnonce' = n
          /\ cost' = c
          /\ IF leading_zeros(Hash(n, b)).panicked
             THEN pc' = "panicked" /\ result' = NoResult
             ELSE pc' = "done" /\ result' = Bool(verify(b, n, c))
    /\ op' = "verify"
    /\ UNCHANGED <<overflow_checks, hash_fn, meter, nonce, counter, draws,
                   hashes, wrapped, rand_failed, lz_in, lz_out>>

\* the caller takes the returned value; the call's frame is gone
Return ==
    /\ pc = "done"
    /\ op' = "none"
    /\ bytes' = <<>>
    /\ cost' = 0
    /\ meter' = 0
    /\ vnonce' = Fill(NONCE_SIZE, 0)
    /\ nonce' = Fill(NONCE_SIZE, 0)
    /\ counter' = 0
    /\ pc' = "idle"
    /\ result' = NoResult
    /\ draws' = 0
    /\ hashes' = 0
    /\ wrapped' = FALSE
    /\ rand_failed' = FALSE
    /\ UNCHANGED <<overflow_checks, hash_fn, lz_in, lz_out>>

Next ==
    SearchCall \/ RandFail \/ AttemptSucceeds \/ AttemptFails \/ VerifyCall \/ Return

Spec == Init /\ [][Next]_vars

----------------------------------------------------------------------------
(* leading_zeros on its own: Init draws the byte sequence, the action applies
   the function *)

InitLZ ==
    /\ overflow_checks \in BOOLEAN
    /\ hash_fn = [x \in HashInputs |-> Fill(OUT_LEN, 255)]
    /\ Idle
    /\ lz_in \in ByteSeqs
    /\ lz_out = [state |-> "none", count |-> 0]

LeadingZerosCall ==
    /\ lz_out.state = "none"
    /\ LET r == leading_zeros(lz_in)
       IN  lz_out' = IF r.panicked
                     THEN [state |-> "panicked", count |-> 0]
                     ELSE [state |-> "returned", count |-> r.count]
    /\ UNCHANGED <<overflow_checks, hash_fn, op, bytes, cost, meter, vnonce,
                   nonce, counter, pc, result, draws, hashes, wrapped,
                   rand_failed, lz_in>>

NextLZ == LeadingZerosCall

SpecLZ == InitLZ /\ [][NextLZ]_vars

----------------------------------------------------------------------------
(* The claims *)

Returned == op = "search" /\ pc = "done"

\* C1: whenever search returns Ok(nonce), the nonce is the one last drawn and
\* checked, and verify(bytes, nonce, cost) is true.
C1_SearchOkVerifies ==
    (Returned /\ result.kind = "Ok")
        => /\ result.nonce = nonce
           /\ draws >= 1
           /\ verify(bytes, result.nonce, cost)

\* search returned Ok at a positive cost after at least one failed attempt
C1_Witness ==
    /\ Returned
    /\ result.kind = "Ok"
    /\ cost = 10
    /\ draws >= 2

\* C2: search draws and hashes at most meter nonces, and it returns
\* MeterOverdrawn once it has searched through meter nonces.
C2_MeterBoundsAttempts ==
    op = "search"
        => /\ draws <= meter
           /\ hashes <= meter
           /\ (result.kind = "MeterOverdrawn" => draws = meter)

\* C3: for every meter of the u32 range search ends after at most meter + 1
\* attempts; the counter never overflows, so the loop neither aborts nor
\* goes on after the meter is used up.
C3_TerminatesWithoutOverflow ==
    op = "search"
        => /\ pc # "panicked"
           /\ ~wrapped
           /\ draws <= meter + 1
           /\ (draws = meter + 1 => pc = "done")

\* C4: a failure of the random source ends search at once with Error::Rand,
\* no nonce drawn and no digest computed in that attempt; MeterOverdrawn is
\* returned only by an attempt that drew a nonce, failed the check and left
\* the counter above meter.
C4_DistinctFailures ==
    /\ [](rand_failed <=> result.kind = "Rand")
    /\ [][ /\ (rand_failed' /\ ~rand_failed)
                => /\ pc' = "done"
                   /\ result' = ErrRand
                   /\ draws' = draws
                   /\ hashes' = hashes
                   /\ nonce' = nonce
                   /\ counter' = counter
           /\ (result'.kind = "MeterOverdrawn" /\ result.kind # "MeterOverdrawn")
                => /\ ~rand_failed'
                   /\ pc' = "done"
                   /\ draws' = Inc(draws)
                   /\ hashes' = Inc(hashes)
                   /\ ~verify(bytes, nonce', cost)
                   /\ counter' > meter
           /\ (rand_failed => (pc' = "idle" \/ UNCHANGED vars))
         ]_vars

\* the random source failed after some attempts had failed the check
C4_Witness ==
    /\ Returned
    /\ result.kind = "Rand"
    /\ draws >= 2
    /\ hashes = draws

\* C5: leading_zeros returns 0 for the empty sequence and otherwise
\* 8*k + clz(b), k the number of zero bytes before the first non-zero byte b;
\* the bytes after b do not matter.
ZeroPrefix(s) ==
    Cardinality({ i \in 1..Len(s) : \A j \in 1..i : s[j] = 0 })

Clz(b) == CHOOSE n \in 0..7 : 2 ^ (7 - n) <= b /\ b < 2 ^ (8 - n)

ExpectedLeadingZeros(s) ==
    LET k == ZeroPrefix(s)
    IN  IF k = Len(s) THEN 8 * k ELSE 8 * k + Clz(s[k + 1])

C5_LeadingZerosValue ==
    lz_out.state # "none"
        => /\ lz_out.state = "returned"
           /\ lz_out.count = ExpectedLeadingZeros(lz_in)

\* C6: verify is monotonic in cost: true at cost C, it is true at every
\* c <= C; and it is true at cost 0.
C6_VerifyMonotonic ==
    (op = "verify" /\ pc = "done")
        => /\ result.kind = "Bool"
           /\ result.val => \A c \in 0..cost : verify(bytes, vnonce, c)
           /\ cost = 0 => result.val

\* verify returned true at a positive cost
C6_Witness ==
    /\ op = "verify"
    /\ pc = "done"
    /\ result.kind = "Bool"
    /\ result.val
    /\ cost = DigestBits

\* C7: with cost above the digest's 256 bits search never returns Ok, and
\* unless the random source fails it returns MeterOverdrawn once the meter
\* is used up.
C7_ImpossibleCostOverdraws ==
    (op = "search" /\ cost > DigestBits)
        => /\ result.kind # "Ok"
           /\ (draws > meter /\ ~rand_failed)
                => (pc = "done" /\ result = ErrMeterOverdrawn)

\* C9: for an all-zero sequence of length N leading_zeros returns 8N, the
\* accumulator neither overflowing nor wrapping.
C9_AllZeroIsEightN ==
    (lz_out.state # "none" /\ \A i \in 1..Len(lz_in) : lz_in[i] = 0)
        => /\ lz_out.state = "returned"
           /\ lz_out.count = 8 * Len(lz_in)

\* C10: with cost 0 search returns Ok with the first nonce it draws, for
\* every meter, meter 0 included: one attempt, never MeterOverdrawn.
C10_ZeroCostFirstNonce ==
    (op = "search" /\ cost = 0)
        => /\ draws <= 1
           /\ hashes = draws
           /\ counter = 0
           /\ pc # "panicked"
           /\ result.kind # "MeterOverdrawn"
           /\ (draws = 1 => (pc = "done" /\ result = Ok(nonce)))
           /\ (pc = "done" /\ ~rand_failed => draws = 1)

\* search at cost 0 and meter 0 returned Ok after its one attempt
C10_Witness ==
    /\ Returned
    /\ cost = 0
    /\ meter = 0
    /\ result.kind = "Ok"
    /\ draws = 1

====
